---- MODULE Spec2Model ----
(***************************************************************************)
(* Model of the backend contract of go-smtp (src/backend.go): the two      *)
(* sentinel errors, the Backend factory, the Session interface, the        *)
(* LMTPSession add-on and the StatusCollector.                             *)
(*                                                                         *)
(* backend.go declares the contract; the behaviour of each method is what  *)
(* its declaration and doc comment state.  Where backend.go is silent      *)
(* (authentication gating of Mail, command sequencing) the behaviour is    *)
(* taken from the specification of the contract (spec.md, 4.2 and 4.4).    *)
(***************************************************************************)
EXTENDS Naturals, Sequences, FiniteSets

\* ------------------------------------------------------------------ bounds

\* Most Rcpt entries one transaction may hold.
MaxRcpts == 2

\* Chunks of the message body stream (io.Reader) of one submission.
BodyChunks == 2

\* Calls and reads the command loops of a run with several connections
\* make in all.
MaxOps == 6

\* ------------------------------------------------------------------ values

\* Connections the server accepts in one run; one Session per connection.
Conns == {"c1", "c2"}

\* Recipient / sender addresses.
Addrs == {"bob", "carol"}

\* A Go value returned as an error is modelled as [typ, val]: its dynamic
\* type and, for a pointer, what it points to.  Two values are equal (Go ==)
\* iff both fields agree, which for *SMTPError is pointer identity.
NilError == [typ |-> "nil", val |-> "nil"]

\* backend.go:10-14, the pointer held by the package variable ErrAuthRequired.
ErrAuthRequired == [typ |-> "*SMTPError", val |-> "ErrAuthRequired"]

\* Mutant of ErrAuthUnsupported: the variable is an alias of ErrAuthRequired.
ErrAuthUnsupportedAliased == [typ |-> "*SMTPError", val |-> "ErrAuthRequired"]

\* backend.go:15-19, the pointer held by the package variable ErrAuthUnsupported.
ErrAuthUnsupported == [typ |-> "*SMTPError", val |-> "ErrAuthUnsupported"]

\* Ad hoc errors a backend returns (no sentinel is mandated for them).
ErrMailboxFull == [typ |-> "*errors.errorString", val |-> "mailbox full"]
ErrSequence == [typ |-> "*errors.errorString", val |-> "bad sequence of commands"]
ErrInvalidCredentials == [typ |-> "*errors.errorString", val |-> "invalid credentials"]
ErrTLSRequired == [typ |-> "*errors.errorString", val |-> "TLS required"]
ErrNoSuchUser == [typ |-> "*errors.errorString", val |-> "no such user"]

\* Mutant of ErrAuthRequiredValue: the message shortened.
ErrAuthRequiredValueTerse ==
    [Code |-> 502, EnhancedCode |-> <<5, 7, 0>>, Message |-> "authenticate first"]

\* backend.go:10-14, the SMTPError that ErrAuthRequired points to.
ErrAuthRequiredValue ==
    [Code |-> 502, EnhancedCode |-> <<5, 7, 0>>, Message |-> "Please authenticate first"]

\* Mutant of ErrAuthUnsupportedValue: the reply code of RFC 4954 for an
\* unrecognised mechanism instead of 502.
ErrAuthUnsupportedValue504 ==
    [Code |-> 504, EnhancedCode |-> <<5, 5, 4>>, Message |-> "Authentication not supported"]

\* backend.go:15-19, the SMTPError that ErrAuthUnsupported points to.
ErrAuthUnsupportedValue ==
    [Code |-> 502, EnhancedCode |-> <<5, 7, 0>>, Message |-> "Authentication not supported"]

\* backend.go:9-20, the package-level var block: what each sentinel pointer
\* points to when the package is initialised.
PackageVars ==
    [ErrAuthRequired |-> ErrAuthRequiredValue,
     ErrAuthUnsupported |-> ErrAuthUnsupportedValue]

\* backend.go:27-33
Body7Bit == "7BIT"
Body8BitMIME == "8BITMIME"
BodyBinaryMIME == "BINARYMIME"

\* backend.go:61, Auth *string: nil, or a pointer to a (possibly empty) string.
AuthNil == [set |-> FALSE, str |-> ""]
AuthEmpty == [set |-> TRUE, str |-> ""]
AuthAlice == [set |-> TRUE, str |-> "alice"]

\* The AUTH= parameter of a MAIL command on the wire: missing, AUTH=<> or
\* AUTH=<alice>.  NoParam: no MAIL command has been taken.
AuthParams == {"absent", "<>", "<alice>"}
NoParam == "-"

\* Mutant of DecodeAuth: an empty identity is taken for a missing one.
DecodeAuthEmptyAsNil(p) ==
    IF p \in {"absent", "<>"} THEN AuthNil ELSE AuthAlice

\* backend.go:54-61, MailOptions.Auth of a MAIL command whose AUTH parameter
\* is p: "decoded form with angle brackets stripped", "nil value indicates
\* missing AUTH, non-nil empty string indicates AUTH=<>".
DecodeAuth(p) ==
    IF p = "absent" THEN AuthNil
    ELSE IF p = "<>" THEN AuthEmpty
    ELSE AuthAlice

\* backend.go:37-62, the MailOptions values a client sends in this model.
MailOptionsSet ==
    [Body : {Body8BitMIME}, Size : {0}, RequireTLS : {FALSE}, UTF8 : {FALSE},
     Auth : {AuthNil, AuthEmpty, AuthAlice}]
    \cup [Body : {Body7Bit}, Size : {0}, RequireTLS : {TRUE}, UTF8 : {FALSE},
          Auth : {AuthNil}]

\* backend.go:78, the values of type *sasl.OAuthBearerError: the nil pointer
\* and pointers to structured errors.  No *SMTPError is among them.
OAuthNil == [typ |-> "*sasl.OAuthBearerError", val |-> "nil"]
OAuthInvalidToken == [typ |-> "*sasl.OAuthBearerError", val |-> "invalid_token"]
OAuthInvalidRequest == [typ |-> "*sasl.OAuthBearerError", val |-> "invalid_request"]
OAuthBearerErrors == {OAuthInvalidToken, OAuthInvalidRequest}

\* A status slot of the collector nobody has set.
Unset == [typ |-> "unset", val |-> "unset"]

\* The statuses a backend reports for one recipient or one message.
Statuses == {NilError, ErrMailboxFull}

NoAddr == "<none>"

\* ----------------------------------------------------------------- helpers

\* How many entries of seq equal a.
Count(seq, a) == Cardinality({i \in DOMAIN seq : seq[i] = a})

\* The elements of a sequence.
Range(seq) == {seq[i] : i \in DOMAIN seq}

\* seq without repeats, first occurrences kept in order.
RECURSIVE Dedup(_)
Dedup(seq) ==
    IF seq = <<>> THEN <<>>
    ELSE LET front == Dedup(SubSeq(seq, 1, Len(seq) - 1))
             last == seq[Len(seq)]
         IN  IF last \in Range(front) THEN front ELSE Append(front, last)

\* ------------------------------------------------------------------- state

VARIABLES
    smtpErrors,  \* what the package variables ErrAuthRequired / ErrAuthUnsupported point to
    backend,     \* what the Backend implements and requires, fixed for a run
    sess,        \* the Session of each connection
    arriving,    \* the connections the server accepts in this run
    fuel         \* <<>>, or <<n>>: the steps the command loops may still take

vars == <<smtpErrors, backend, sess, arriving, fuel>>

\* The fields of a Session:
\*   live      "none" before NewSession, "open", "closed" after Logout,
\*             "refused" when NewSession failed
\*   authed    an authentication operation has succeeded
\*   state     Idle, SenderSet, RecipientAdded or BodySubmitted
\*   from      the return path set by Mail, opts its MailOptions (<<>> or <<o>>)
\*   param     the AUTH parameter of the MAIL command as the client sent it
\*   rcpts     one entry per successful Rcpt call, in call order
\*   pc        "cmd" between calls, "data" inside Data, "lmtpdata" inside LMTPData
\*   read      chunks of the body stream consumed for the current message
\*   reported  the recipient of each status slot, slots the status set in it
\*   calls     SetStatus calls made per address in the current submission
\*   outcomes  the status of each slot once the submission has returned
\*   ret       the last operation and the value it returned
\*   dropped   a Reset has discarded at least one recipient (history)
\*   logouts   Logout calls made on the session
FreshSession ==
    [live |-> "none", authed |-> FALSE, state |-> "Idle", from |-> NoAddr,
     opts |-> <<>>, param |-> NoParam, rcpts |-> <<>>, pc |-> "cmd", read |-> 0,
     reported |-> <<>>, slots |-> <<>>, calls |-> [a \in Addrs |-> 0],
     outcomes |-> <<>>, ret |-> [op |-> "none", err |-> NilError],
     dropped |-> FALSE, logouts |-> 0]

\* What a Backend may implement and require.
Backends ==
    [authRequired : BOOLEAN, authPlain : BOOLEAN, oauth : BOOLEAN, lmtp : BOOLEAN]

\* One connection arrives and its command loop runs as long as it likes.
Init ==
    /\ smtpErrors = PackageVars
    /\ backend \in Backends
    /\ sess = [c \in Conns |-> FreshSession]
    /\ arriving = {"c1"}
    /\ fuel = <<>>

\* Every connection arrives; their command loops, interleaved in any order,
\* take MaxOps steps in all.
InitMulti ==
    /\ smtpErrors = PackageVars
    /\ backend \in Backends
    /\ sess = [c \in Conns |-> FreshSession]
    /\ arriving = Conns
    /\ fuel = <<MaxOps>>

\* What a step of a session leaves alone: the package variables and the
\* backend; a bounded run has one step less to take.
Frame ==
    /\ UNCHANGED <<smtpErrors, backend, arriving>>
    /\ IF fuel = <<>>
       THEN fuel' = fuel
       ELSE fuel[1] > 0 /\ fuel' = <<fuel[1] - 1>>

\* Mutant of Ready: the command loop goes on after Logout.
ReadyAfterLogout(c) == sess[c].live \in {"open", "closed"} /\ sess[c].pc = "cmd"

\* The session of c is open and its command loop is between two calls.
Ready(c) == sess[c].live = "open" /\ sess[c].pc = "cmd"

\* Mutant of Return: the backend hands every connection the same Session,
\* so what one command loop does shows in every open session.
ReturnShared(c, s, op, err) ==
    /\ sess' = [d \in Conns |->
                  IF d = c \/ sess[d].live = "open"
                  THEN [s EXCEPT !.ret = [op |-> op, err |-> err]]
                  ELSE sess[d]]
    /\ Frame

\* Operation op of session c returns err, leaving the session as s.
Return(c, s, op, err) ==
    /\ sess' = [sess EXCEPT ![c] = [s EXCEPT !.ret = [op |-> op, err |-> err]]]
    /\ Frame

\* ----------------------------------------------------------------- Backend

\* backend.go:24, NewSession(c *Conn) (Session, error): a new, independent
\* Session for the connection, or an error that refuses the connection.
NewSession(c) ==
    /\ c \in arriving
    /\ sess[c].live = "none"
    /\ \E ok \in BOOLEAN :
        IF ok
        THEN Return(c, [FreshSession EXCEPT !.live = "open"], "NewSession", NilError)
        ELSE Return(c, [FreshSession EXCEPT !.live = "refused"], "NewSession", ErrMailboxFull)

\* ----------------------------------------------------------------- Session

\* Mutant of ResetOp: the recipient list survives the reset.
ResetKeepsRcpts(s) ==
    [s EXCEPT !.state = "Idle", !.from = NoAddr, !.opts = <<>>, !.param = NoParam,
              !.read = 0, !.reported = <<>>, !.slots = <<>>,
              !.calls = [a \in Addrs |-> 0], !.outcomes = <<>>,
              !.ret = [op |-> "Reset", err |-> NilError],
              !.dropped = (s.dropped \/ s.rcpts # <<>>)]

\* Mutant of ResetOp: each reset undoes only the last recipient.
ResetDropLast(s) ==
    [s EXCEPT !.state = IF Len(s.rcpts) <= 1 THEN "Idle" ELSE s.state,
              !.from = IF Len(s.rcpts) <= 1 THEN NoAddr ELSE s.from,
              !.opts = IF Len(s.rcpts) <= 1 THEN <<>> ELSE s.opts,
              !.param = IF Len(s.rcpts) <= 1 THEN NoParam ELSE s.param,
              !.rcpts = IF s.rcpts = <<>> THEN <<>> ELSE SubSeq(s.rcpts, 1, Len(s.rcpts) - 1),
              !.read = 0, !.reported = <<>>, !.slots = <<>>,
              !.calls = [a \in Addrs |-> 0], !.outcomes = <<>>,
              !.ret = [op |-> "Reset", err |-> NilError],
              !.dropped = (s.dropped \/ s.rcpts # <<>>)]

\* Mutant of ResetOp: the reset forgets the authentication too.
ResetClearsAuth(s) ==
    [s EXCEPT !.state = "Idle", !.from = NoAddr, !.opts = <<>>, !.param = NoParam,
              !.rcpts = <<>>, !.authed = FALSE,
              !.read = 0, !.reported = <<>>, !.slots = <<>>,
              !.calls = [a \in Addrs |-> 0], !.outcomes = <<>>,
              !.ret = [op |-> "Reset", err |-> NilError],
              !.dropped = (s.dropped \/ s.rcpts # <<>>)]

\* backend.go:68-69, Reset(): "Discard currently processed message".  The
\* session after Reset: no sender, no options, no recipients, no body, no
\* statuses; Reset has no result.
ResetOp(s) ==
    [s EXCEPT !.state = "Idle", !.from = NoAddr, !.opts = <<>>, !.param = NoParam,
              !.rcpts = <<>>,
              !.read = 0, !.reported = <<>>, !.slots = <<>>,
              !.calls = [a \in Addrs |-> 0], !.outcomes = <<>>,
              !.ret = [op |-> "Reset", err |-> NilError],
              !.dropped = (s.dropped \/ s.rcpts # <<>>)]

Reset(c) ==
    /\ Ready(c)
    /\ sess' = [sess EXCEPT ![c] = ResetOp(sess[c])]
    /\ Frame

\* backend.go:71-72, Logout() error: "Free all resources associated with
\* session"; the error reports a cleanup failure.
Logout(c) ==
    /\ Ready(c)
    /\ \E err \in {NilError, ErrMailboxFull} :
        Return(c, [ResetOp(sess[c]) EXCEPT !.live = "closed", !.logouts = @ + 1],
               "Logout", err)

\* Authentication is mandatory for this backend and the session has none.
AuthMissing(s) == backend.authRequired /\ ~s.authed

\* backend.go:74-75, AuthPlain(username, password string) error.  valid:
\* whether the backend accepts the credentials.
AuthPlainResult(valid) ==
    IF ~backend.authPlain THEN ErrAuthUnsupported
    ELSE IF valid THEN NilError
    ELSE ErrInvalidCredentials

AuthPlain(c) ==
    /\ Ready(c)
    /\ \E valid \in BOOLEAN :
        LET err == AuthPlainResult(valid)
        IN  Return(c, [sess[c] EXCEPT !.authed = (@ \/ err = NilError)], "AuthPlain", err)

\* Mutant of OAuthBearerResults: the result is a plain error, so that the
\* sentinel can be returned.
OAuthBearerResultsAnyError == {OAuthNil, ErrAuthUnsupported} \cup OAuthBearerErrors

\* backend.go:77-78, AuthOAuthBearer(opts) *sasl.OAuthBearerError: what the
\* result type admits.
OAuthBearerResults == {OAuthNil} \cup OAuthBearerErrors

AuthOAuthBearer(c) ==
    /\ Ready(c)
    /\ \E r \in OAuthBearerResults :
        /\ ~backend.oauth => r # OAuthNil
        /\ Return(c, [sess[c] EXCEPT !.authed = (@ \/ r = OAuthNil)], "AuthOAuthBearer", r)

\* Mutant of MailResult: authentication is not looked at.
MailResultNoAuthCheck(s, o, secure) ==
    IF s.state # "Idle" THEN ErrSequence
    ELSE IF o.RequireTLS /\ ~secure THEN ErrTLSRequired
    ELSE NilError

\* backend.go:80-81, Mail(from string, opts *MailOptions) error.  secure:
\* whether the transport is confidential when the command arrives.
MailResult(s, o, secure) ==
    IF AuthMissing(s) THEN ErrAuthRequired
    ELSE IF s.state # "Idle" THEN ErrSequence
    ELSE IF o.RequireTLS /\ ~secure THEN ErrTLSRequired
    ELSE NilError

Mail(c) ==
    /\ Ready(c)
    /\ \E from \in {"alice"}, p \in AuthParams, o \in MailOptionsSet, secure \in BOOLEAN :
        LET err == MailResult(sess[c], o, secure)
        IN  /\ o.Auth = DecodeAuth(p)
            /\ IF err = NilError
               THEN Return(c, [sess[c] EXCEPT !.state = "SenderSet", !.from = from,
                                              !.opts = <<o>>, !.param = p], "Mail", err)
               ELSE Return(c, sess[c], "Mail", err)

\* Mutant of RcptResult: a recipient is taken whether or not a sender was set.
RcptResultNoSequenceCheck(s, accept) ==
    IF AuthMissing(s) THEN ErrAuthRequired
    ELSE IF ~accept THEN ErrNoSuchUser
    ELSE NilError

\* backend.go:82-83, Rcpt(to string) error.  accept: whether the backend
\* takes the recipient.
RcptResult(s, accept) ==
    IF AuthMissing(s) THEN ErrAuthRequired
    ELSE IF s.state \notin {"SenderSet", "RecipientAdded"} THEN ErrSequence
    ELSE IF ~accept THEN ErrNoSuchUser
    ELSE NilError

Rcpt(c) ==
    /\ Ready(c)
    /\ Len(sess[c].rcpts) < MaxRcpts
    /\ \E to \in Addrs, accept \in BOOLEAN :
        LET err == RcptResult(sess[c], accept)
        IN  IF err = NilError
            THEN Return(c, [sess[c] EXCEPT !.state = "RecipientAdded",
                                           !.rcpts = Append(@, to)], "Rcpt", err)
            ELSE Return(c, sess[c], "Rcpt", err)

\* Mutant of SubmitCheck: a body is taken whether or not a sender was set.
SubmitCheckNoSequence(s) ==
    IF AuthMissing(s) THEN ErrAuthRequired
    ELSE NilError

\* What a body submission answers before it touches the stream.
SubmitCheck(s) ==
    IF AuthMissing(s) THEN ErrAuthRequired
    ELSE IF s.state \notin {"SenderSet", "RecipientAdded"} THEN ErrSequence
    ELSE NilError

\* Mutant of UsesLMTP: the per-recipient path is taken without asking
\* whether the Session is an LMTPSession.
UsesLMTPUnchecked == TRUE

\* The per-recipient path is taken iff the Session is also an LMTPSession.
UsesLMTP == backend.lmtp

\* backend.go:84-87, Data(r io.Reader) error: the call is entered.
DataCall(c) ==
    /\ Ready(c)
    /\ ~UsesLMTP
    /\ LET err == SubmitCheck(sess[c])
       IN  IF err = NilError
           THEN /\ sess' = [sess EXCEPT ![c].pc = "data", ![c].read = 0]
                /\ Frame
           ELSE Return(c, sess[c], "Data", err)

\* Mutant of StreamValid: the body is still read in the background once the
\* call has returned.
StreamValidAfterReturn(s) ==
    s.pc \in {"data", "lmtpdata"} \/ s.state = "BodySubmitted"

\* backend.go:86, "r must be consumed before Data returns": the stream is
\* read while the call it was passed to is in progress.
StreamValid(s) == s.pc \in {"data", "lmtpdata"}

\* backend.go:86, a call that returns nil has consumed the stream; one that
\* returns an error may leave it partly read.
Drained(s, v) == v = NilError => s.read = BodyChunks

\* backend.go:86, one read of the stream, inside Data or LMTPData.
ReadBody(c) ==
    /\ sess[c].live = "open"
    /\ StreamValid(sess[c])
    /\ sess[c].read < BodyChunks
    /\ sess' = [sess EXCEPT ![c].read = @ + 1]
    /\ Frame

\* backend.go:84-87, Data returns v, the one status of every recipient.
DataReturn(c) ==
    /\ sess[c].live = "open"
    /\ sess[c].pc = "data"
    /\ \E v \in Statuses :
        /\ Drained(sess[c], v)
        /\ Return(c, [sess[c] EXCEPT !.pc = "cmd", !.state = "BodySubmitted",
                                     !.reported = sess[c].rcpts,
                                     !.outcomes = [i \in DOMAIN sess[c].rcpts |-> v]],
                  "Data", v)

\* ------------------------------------------------------------- LMTPSession

\* Mutant of StatusSlots: one slot per distinct address.
StatusSlotsDistinct(rcpts) == Dedup(rcpts)

\* backend.go:98-101, the recipients a status is owed to: "once per each
\* AddRcpt call, even if AddRcpt was called multiple times with the same
\* argument", so one slot per entry of the recipient list.
StatusSlots(rcpts) == rcpts

\* Mutant of SinkValid: the collector stays usable once it exists.
SinkValidOnceCreated(s) == s.pc = "lmtpdata" \/ s.slots # <<>>

\* backend.go:101-102, "SetStatus must not be called after LMTPData
\* returns": the collector may be used while the call is in progress.
SinkValid(s) == s.pc = "lmtpdata"

\* Mutant of Outcome: a recipient nobody set is accepted whatever v is.
OutcomeIgnoresReturn(slot, v) == IF slot = Unset THEN NilError ELSE slot

\* backend.go:104-105, the status of a slot once LMTPData has returned v:
\* what was set, or v for "recipients that got no status set".
Outcome(slot, v) == IF slot = Unset THEN v ELSE slot

\* Mutant of Outcomes: one failed recipient fails the whole transaction.
OutcomesAllOrNothing(slots, v) ==
    IF \E i \in DOMAIN slots : slots[i] \notin {Unset, NilError}
    THEN [i \in DOMAIN slots |->
            slots[CHOOSE j \in DOMAIN slots : slots[j] \notin {Unset, NilError}]]
    ELSE [i \in DOMAIN slots |-> Outcome(slots[i], v)]

\* backend.go:104-105 and 109-113, the status of every slot once LMTPData
\* has returned v: each recipient has its own.
Outcomes(slots, v) == [i \in DOMAIN slots |-> Outcome(slots[i], v)]

\* backend.go:106, LMTPData(r io.Reader, status StatusCollector) error: the
\* call is entered with a collector holding one unset slot per owed status.
LMTPDataCall(c) ==
    /\ Ready(c)
    /\ UsesLMTP
    /\ LET err == SubmitCheck(sess[c])
           owed == StatusSlots(sess[c].rcpts)
       IN  IF err = NilError
           THEN /\ sess' = [sess EXCEPT ![c].pc = "lmtpdata", ![c].read = 0,
                                        ![c].reported = owed,
                                        ![c].slots = [i \in DOMAIN owed |-> Unset],
                                        ![c].calls = [a \in Addrs |-> 0]]
                /\ Frame
           ELSE Return(c, sess[c], "LMTPData", err)

\* Mutant of UnsetSlots: a slot may be set again.
UnsetSlotsOrSet(s, a) == {i \in DOMAIN s.slots : s.reported[i] = a}

\* backend.go:98-101, "once per each AddRcpt call": the slots of address a
\* that nobody has set, which are the SetStatus calls still owed for a.
UnsetSlots(s, a) == {i \in DOMAIN s.slots : s.reported[i] = a /\ s.slots[i] = Unset}

\* The least element of a non-empty set of numbers.
Min(S) == CHOOSE i \in S : \A j \in S : i <= j

\* backend.go:112, SetStatus(rcptTo string, err error), called by the
\* LMTPData implementation: the next unset slot of rcptTo takes err.
SetStatus(c) ==
    /\ sess[c].live = "open"
    /\ SinkValid(sess[c])
    /\ \E a \in Addrs, e \in Statuses :
        /\ UnsetSlots(sess[c], a) # {}
        /\ sess' = [sess EXCEPT ![c].slots[Min(UnsetSlots(sess[c], a))] = e,
                                ![c].calls[a] = @ + 1]
        /\ Frame

\* backend.go:104-106, LMTPData returns v.
LMTPDataReturn(c) ==
    /\ sess[c].live = "open"
    /\ sess[c].pc = "lmtpdata"
    /\ \E v \in Statuses :
        /\ Drained(sess[c], v)
        /\ Return(c, [sess[c] EXCEPT !.pc = "cmd", !.state = "BodySubmitted",
                                     !.outcomes = Outcomes(sess[c].slots, v)],
                  "LMTPData", v)

\* ------------------------------------------------------------ specification

Next ==
    \/ \E c \in Conns : NewSession(c)
    \/ \E c \in Conns : Reset(c)
    \/ \E c \in Conns : Logout(c)
    \/ \E c \in Conns : AuthPlain(c)
    \/ \E c \in Conns : AuthOAuthBearer(c)
    \/ \E c \in Conns : Mail(c)
    \/ \E c \in Conns : Rcpt(c)
    \/ \E c \in Conns : DataCall(c)
    \/ \E c \in Conns : ReadBody(c)
    \/ \E c \in Conns : DataReturn(c)
    \/ \E c \in Conns : LMTPDataCall(c)
    \/ \E c \in Conns : SetStatus(c)
    \/ \E c \in Conns : LMTPDataReturn(c)

Spec == Init /\ [][Next]_vars

\* Several connections, their command loops interleaved.
SpecMulti == InitMulti /\ [][Next]_vars

\* ------------------------------------------------------------------ claims

\* LMTPData of session s has run to its return and the session has done
\* nothing since that changes the transaction.
Submitted(s) ==
    /\ backend.lmtp
    /\ s.live = "open"
    /\ s.pc = "cmd"
    /\ s.state = "BodySubmitted"

\* The statuses issued for address a by the submission of s.
Reports(s, a) == Cardinality({i \in DOMAIN s.outcomes : s.reported[i] = a})

\* C1, as stated: after submitBodyWithStatus, every distinct address added
\* to the transaction has exactly one status report, however often it was
\* added.
C1_OneReportPerDistinctAddress ==
    \A c \in Conns :
        Submitted(sess[c]) =>
            \A a \in Addrs :
                Reports(sess[c], a) = IF Count(sess[c].rcpts, a) > 0 THEN 1 ELSE 0

\* C1, amended: after submitBodyWithStatus, every address has exactly one
\* status report per addRecipient call made for it, so an address added k
\* times has k reports.
C1_OneReportPerRcptCall ==
    \A c \in Conns :
        Submitted(sess[c]) =>
            \A a \in Addrs : Reports(sess[c], a) = Count(sess[c].rcpts, a)

\* C1, witness: bob was added twice and the submission has issued two
\* reports for bob.
C1_Witness ==
    \E c \in Conns :
        /\ Submitted(sess[c])
        /\ sess[c].rcpts = <<"bob", "bob">>
        /\ Reports(sess[c], "bob") = 2

C3_UnsetRecipientsTakeReturnValue ==
    \A c \in Conns :
        (Submitted(sess[c]) /\ sess[c].ret.op = "LMTPData" /\ sess[c].ret.err \in Statuses) =>
            /\ DOMAIN sess[c].outcomes = DOMAIN sess[c].slots
            /\ \A i \in DOMAIN sess[c].slots :
                /\ sess[c].slots[i] = Unset => sess[c].outcomes[i] = sess[c].ret.err
                /\ sess[c].slots[i] # Unset => sess[c].outcomes[i] = sess[c].slots[i]

\* C3, witness: LMTPData returned nil having set bob to "mailbox full" and
\* never set carol; bob is rejected with that error and carol is accepted.
C3_Witness ==
    \E c \in Conns :
        /\ Submitted(sess[c])
        /\ sess[c].ret = [op |-> "LMTPData", err |-> NilError]
        /\ sess[c].rcpts = <<"bob", "carol">>
        /\ sess[c].slots = <<ErrMailboxFull, Unset>>
        /\ sess[c].outcomes = <<ErrMailboxFull, NilError>>

\* C4: every SetStatus call happens while the LMTPData call the collector
\* was passed to is in progress; none follows its return.
C4_NoSetStatusAfterReturn ==
    [][\A c \in Conns :
         (\E a \in Addrs : sess'[c].calls[a] > sess[c].calls[a])
            => sess[c].pc = "lmtpdata" /\ sess'[c].pc = "lmtpdata"]_vars

\* C4, witness: SetStatus was called for bob and LMTPData has returned.
C4_Witness ==
    \E c \in Conns :
        /\ Submitted(sess[c])
        /\ sess[c].ret.op = "LMTPData"
        /\ sess[c].calls["bob"] > 0

\* C5: a transaction begun after a reset holds no recipient from before the
\* reset: in Idle and in SenderSet the recipient list is empty and no status
\* is owed or issued, and a submission reports on recipients of the current
\* list only.
C5_NoResidualRecipients ==
    \A c \in Conns :
        /\ sess[c].state \in {"Idle", "SenderSet"} =>
              /\ sess[c].rcpts = <<>>
              /\ sess[c].reported = <<>>
              /\ sess[c].outcomes = <<>>
        /\ Range(sess[c].reported) \subseteq Range(sess[c].rcpts)

\* C5, witness: a reset discarded recipients and setSender has begun the
\* next transaction.
C5_Witness ==
    \E c \in Conns :
        /\ sess[c].dropped
        /\ sess[c].state = "SenderSet"
        /\ sess[c].ret = [op |-> "Mail", err |-> NilError]
        /\ sess[c].rcpts = <<>>

\* C6: reset never fails and is idempotent: from every reachable session
\* state a second reset changes nothing the first left, and the state after
\* a reset has no sender, no options, no recipients and no partial body.
C6_ResetIdempotent ==
    \A c \in Conns :
        LET once == ResetOp(sess[c])
            twice == ResetOp(ResetOp(sess[c]))
        IN  /\ twice = once
            /\ once.ret.err = NilError
            /\ once.state = "Idle"
            /\ once.from = NoAddr
            /\ once.opts = <<>>
            /\ once.rcpts = <<>>
            /\ once.read = 0
            /\ sess[c].ret.op = "Reset" =>
                  /\ sess[c] = once
                  /\ sess[c].rcpts = <<>>
                  /\ sess[c].from = NoAddr
                  /\ sess[c].read = 0

\* C6, witness: a reset has discarded recipients, and resetting the state
\* it left gives that state again.
C6_Witness ==
    \E c \in Conns :
        /\ sess[c].live = "open"
        /\ sess[c].ret.op = "Reset"
        /\ sess[c].dropped
        /\ ResetOp(sess[c]) = sess[c]

\* C7: when authentication is mandatory and the session has none, Mail
\* returns the ErrAuthRequired sentinel itself, which carries 502 and
\* 5.7.0, and begins no transaction: the session stays Idle.
C7_MailWithoutAuthIsErrAuthRequired ==
    \A c \in Conns :
        (sess[c].ret.op = "Mail" /\ AuthMissing(sess[c])) =>
            /\ sess[c].ret.err = ErrAuthRequired
            /\ smtpErrors[sess[c].ret.err.val].Code = 502
            /\ smtpErrors[sess[c].ret.err.val].EnhancedCode = <<5, 7, 0>>
            /\ sess[c].state = "Idle"
            /\ sess[c].from = NoAddr
            /\ sess[c].rcpts = <<>>

\* C7, witness: Mail was called on an unauthenticated session of a backend
\* that requires authentication.
C7_Witness ==
    \E c \in Conns :
        /\ backend.authRequired
        /\ ~sess[c].authed
        /\ sess[c].ret = [op |-> "Mail", err |-> ErrAuthRequired]
        /\ sess[c].state = "Idle"

\* C8: after any sequence of session operations each sentinel still carries
\* 502 and 5.7.0, and every *SMTPError an operation has returned is one of
\* the two shared sentinels, so that two references to a sentinel compare
\* equal wherever they were obtained.
C8_SentinelsStable ==
    /\ smtpErrors[ErrAuthRequired.val].Code = 502
    /\ smtpErrors[ErrAuthRequired.val].EnhancedCode = <<5, 7, 0>>
    /\ smtpErrors[ErrAuthUnsupported.val].Code = 502
    /\ smtpErrors[ErrAuthUnsupported.val].EnhancedCode = <<5, 7, 0>>
    /\ \A c \in Conns :
        /\ sess[c].ret.err.typ = "*SMTPError" =>
              sess[c].ret.err \in {ErrAuthRequired, ErrAuthUnsupported}
        /\ (sess[c].ret.op = "Mail" /\ AuthMissing(sess[c])) =>
              sess[c].ret.err = ErrAuthRequired
        /\ sess[c].ret.err.typ = "*SMTPError" =>
              /\ smtpErrors[sess[c].ret.err.val].Code = 502
              /\ smtpErrors[sess[c].ret.err.val].EnhancedCode = <<5, 7, 0>>

\* C8, witness: a whole transaction has been submitted and an operation
\* after it has returned the ErrAuthUnsupported sentinel.
C8_Witness ==
    \E c \in Conns :
        /\ sess[c].state = "BodySubmitted"
        /\ sess[c].ret.err = ErrAuthUnsupported
        /\ smtpErrors[sess[c].ret.err.val].Code = 502

\* C9, as stated: the message of ErrAuthRequired is "authenticate first"
\* and the message of ErrAuthUnsupported is "authentication not supported".
C9_MessagesAsInSpec ==
    \A c \in Conns :
        /\ sess[c].ret.err = ErrAuthRequired =>
              smtpErrors[sess[c].ret.err.val].Message = "authenticate first"
        /\ sess[c].ret.err = ErrAuthUnsupported =>
              smtpErrors[sess[c].ret.err.val].Message = "authentication not supported"

\* C9, amended: the message of ErrAuthRequired is "Please authenticate
\* first" and the message of ErrAuthUnsupported is "Authentication not
\* supported".
C9_MessagesAsDeclared ==
    /\ smtpErrors[ErrAuthRequired.val].Message = "Please authenticate first"
    /\ smtpErrors[ErrAuthUnsupported.val].Message = "Authentication not supported"

\* C9, witness: an operation has returned ErrAuthRequired and the message
\* read through the returned reference is "Please authenticate first".
C9_Witness ==
    \E c \in Conns :
        /\ sess[c].ret.err = ErrAuthRequired
        /\ smtpErrors[sess[c].ret.err.val].Message = "Please authenticate first"

\* C10, as stated: AuthPlain and AuthOAuthBearer alike, called on a backend
\* that does not support the mechanism, return the ErrAuthUnsupported
\* sentinel itself.
C10_EveryAuthOperationReturnsSentinel ==
    \A c \in Conns :
        /\ (sess[c].ret.op = "AuthPlain" /\ ~backend.authPlain) =>
              sess[c].ret.err = ErrAuthUnsupported
        /\ (sess[c].ret.op = "AuthOAuthBearer" /\ ~backend.oauth) =>
              sess[c].ret.err = ErrAuthUnsupported

\* C10, amended: AuthPlain on a backend that does not support it returns
\* the ErrAuthUnsupported sentinel itself.  AuthOAuthBearer returns a
\* *sasl.OAuthBearerError, never the sentinel: on a backend that does not
\* support it the result is a non-nil *sasl.OAuthBearerError.  Neither call
\* authenticates the session.
C10_AuthPlainReturnsSentinel ==
    /\ [](\A c \in Conns :
            /\ (sess[c].ret.op = "AuthPlain" /\ ~backend.authPlain) =>
                  sess[c].ret.err = ErrAuthUnsupported
            /\ sess[c].ret.op = "AuthOAuthBearer" =>
                  /\ sess[c].ret.err.typ = "*sasl.OAuthBearerError"
                  /\ sess[c].ret.err # ErrAuthUnsupported
                  /\ ~backend.oauth => sess[c].ret.err \in OAuthBearerErrors
            /\ (~backend.authPlain /\ ~backend.oauth) => ~sess[c].authed)
    /\ [][\A c \in Conns :
            (sess'[c].ret.err = ErrAuthUnsupported \/ sess'[c].ret.err \in OAuthBearerErrors)
               => sess'[c].authed = sess[c].authed]_vars

\* C10, witness: AuthPlain on a backend that implements no mechanism has
\* returned ErrAuthUnsupported and the session is unauthenticated.
C10_Witness ==
    \E c \in Conns :
        /\ ~backend.authPlain
        /\ sess[c].ret = [op |-> "AuthPlain", err |-> ErrAuthUnsupported]
        /\ ~sess[c].authed

\* C11: an asserted identity that is present and empty (AUTH=<>) and one
\* that is absent stay distinct for the whole transaction: the options the
\* session holds say "absent" exactly when the client sent no AUTH
\* parameter and "empty" exactly when it sent AUTH=<>, and no operation of
\* the transaction changes the identity the options hold.
C11_EmptyAndAbsentIdentityDistinct ==
    /\ [](\A c \in Conns :
            sess[c].opts # <<>> =>
                /\ sess[c].opts[1].Auth = AuthNil <=> sess[c].param = "absent"
                /\ sess[c].opts[1].Auth = AuthEmpty <=> sess[c].param = "<>"
                /\ sess[c].opts[1].Auth.set <=> sess[c].param # "absent")
    /\ [][\A c \in Conns :
            (sess[c].opts # <<>> /\ sess'[c].opts # <<>>) =>
                sess'[c].opts[1].Auth = sess[c].opts[1].Auth]_vars

\* C11, witness: a transaction begun with AUTH=<> has had its body
\* submitted and still holds the empty, non-nil identity.
C11_Witness ==
    \E c \in Conns :
        /\ sess[c].state = "BodySubmitted"
        /\ sess[c].param = "<>"
        /\ sess[c].opts # <<>>
        /\ sess[c].opts[1].Auth = AuthEmpty
        /\ sess[c].opts[1].Auth # AuthNil

Moves ==
    { <<"Idle", "SenderSet">>, <<"SenderSet", "RecipientAdded">>,
      <<"RecipientAdded", "RecipientAdded">>, <<"SenderSet", "BodySubmitted">>,
      <<"RecipientAdded", "BodySubmitted">> }

\* C13: the transaction state of an open session changes only along Idle ->
\* SenderSet -> RecipientAdded -> BodySubmitted, or to Idle by Reset; a
\* submitted body belongs to a transaction that has a sender set since the
\* last reset, and the recipients it covers were added after that setSender
\* (the list is empty when the sender has just been set).
C13_TransactionStateOrder ==
    /\ [](\A c \in Conns :
            /\ sess[c].state = "Idle" => sess[c].from = NoAddr /\ sess[c].rcpts = <<>>
            /\ sess[c].state = "SenderSet" => sess[c].from # NoAddr /\ sess[c].rcpts = <<>>
            /\ sess[c].state = "RecipientAdded" => sess[c].from # NoAddr /\ sess[c].rcpts # <<>>
            /\ sess[c].state = "BodySubmitted" =>
                  /\ sess[c].from # NoAddr
                  /\ Range(sess[c].reported) \subseteq Range(sess[c].rcpts)
            /\ sess[c].pc # "cmd" => sess[c].state \in {"SenderSet", "RecipientAdded"})
    /\ [][\A c \in Conns :
            (sess'[c].live = "open" /\ sess'[c].state # sess[c].state) =>
                \/ <<sess[c].state, sess'[c].state>> \in Moves
                \/ sess'[c].state = "Idle" /\ sess'[c].ret.op = "Reset"]_vars

\* C13, witness: after a reset that discarded recipients, a new setSender
\* and a new recipient, a body submission has succeeded.
C13_Witness ==
    \E c \in Conns :
        /\ sess[c].dropped
        /\ sess[c].state = "BodySubmitted"
        /\ sess[c].ret.op \in {"Data", "LMTPData"}
        /\ sess[c].ret.err = NilError
        /\ sess[c].rcpts = <<"carol">>

\* The slots of session s that SetStatus has set to a failure.
FailedSlots(s) == {i \in DOMAIN s.slots : s.slots[i] \notin {Unset, NilError}}

\* C14: a failure reported through the status sink is that recipient's
\* alone: when exactly one recipient was set to a failure and LMTPData
\* returned nil, every other recipient of the transaction is accepted and
\* the failed one has the error set for it.
C14_OneFailureRejectsOneRecipient ==
    \A c \in Conns :
        (/\ Submitted(sess[c])
         /\ sess[c].ret = [op |-> "LMTPData", err |-> NilError]
         /\ Cardinality(FailedSlots(sess[c])) = 1) =>
            /\ Len(sess[c].outcomes) = Len(sess[c].rcpts)
            /\ \A i \in DOMAIN sess[c].outcomes :
                IF i \in FailedSlots(sess[c])
                THEN sess[c].outcomes[i] = sess[c].slots[i]
                ELSE sess[c].outcomes[i] = NilError

\* C14, witness: carol and bob were added, bob alone was set to "mailbox
\* full", LMTPData returned nil and carol is accepted.
C14_Witness ==
    \E c \in Conns :
        /\ Submitted(sess[c])
        /\ sess[c].ret = [op |-> "LMTPData", err |-> NilError]
        /\ sess[c].rcpts = <<"carol", "bob">>
        /\ sess[c].slots = <<NilError, ErrMailboxFull>>
        /\ sess[c].outcomes = <<NilError, ErrMailboxFull>>

\* C15: Logout is called once per session, at teardown, and is the
\* session's last operation: a session that is torn down has had exactly
\* one Logout and one that is not has had none, Logout can be called
\* between any two calls whatever the transaction state, and after it
\* nothing is invoked on the session.
C15_LogoutOnceAndLast ==
    /\ [](\A c \in Conns :
            /\ sess[c].logouts = (IF sess[c].live = "closed" THEN 1 ELSE 0)
            /\ (sess[c].live = "open" /\ sess[c].pc = "cmd") => ENABLED Logout(c))
    /\ [][\A c \in Conns : sess[c].live = "closed" => sess'[c] = sess[c]]_vars

\* C15, witness: Logout has ended a session in the middle of a
\* transaction, discarding its recipients.
C15_Witness ==
    \E c \in Conns :
        /\ sess[c].live = "closed"
        /\ sess[c].logouts = 1
        /\ sess[c].ret.op = "Logout"
        /\ sess[c].dropped

\* C16: the body stream is read only inside the Data or LMTPData call it
\* was passed to: every read starts and ends with the call in progress, a
\* call that has returned nil has consumed the whole stream, and one that
\* has returned an error has consumed some part of it, all or none.
C16_NoReadAfterReturn ==
    /\ [](\A c \in Conns :
            /\ sess[c].read \in 0..BodyChunks
            /\ (/\ sess[c].pc = "cmd"
                /\ sess[c].state = "BodySubmitted"
                /\ sess[c].ret.op \in {"Data", "LMTPData"}
                /\ sess[c].ret.err = NilError) => sess[c].read = BodyChunks)
    /\ [][\A c \in Conns :
            sess'[c].read > sess[c].read =>
                /\ sess[c].pc \in {"data", "lmtpdata"}
                /\ sess'[c].pc = sess[c].pc]_vars

\* C16, witness: a submission has returned an error with the stream partly
\* read.
C16_Witness ==
    \E c \in Conns :
        /\ sess[c].pc = "cmd"
        /\ sess[c].state = "BodySubmitted"
        /\ sess[c].ret.op \in {"Data", "LMTPData"}
        /\ sess[c].ret.err = ErrMailboxFull
        /\ sess[c].read > 0
        /\ sess[c].read < BodyChunks

\* C18: the per-recipient path is used only when the Session is also an
\* LMTPSession; otherwise the body goes to Data, no status is ever set
\* through a collector, and the value Data returned is the outcome of every
\* recipient of the transaction.
C18_DataIsTheFallback ==
    \A c \in Conns :
        /\ (sess[c].pc = "lmtpdata" \/ sess[c].ret.op = "LMTPData") => backend.lmtp
        /\ (sess[c].pc = "data" \/ sess[c].ret.op = "Data") => ~backend.lmtp
        /\ ~backend.lmtp =>
              /\ sess[c].slots = <<>>
              /\ \A a \in Addrs : sess[c].calls[a] = 0
              /\ (/\ sess[c].state = "BodySubmitted"
                  /\ sess[c].ret.op = "Data"
                  /\ sess[c].ret.err \in Statuses) =>
                    /\ sess[c].reported = sess[c].rcpts
                    /\ DOMAIN sess[c].outcomes = DOMAIN sess[c].rcpts
                    /\ \A i \in DOMAIN sess[c].rcpts : sess[c].outcomes[i] = sess[c].ret.err

\* C18, witness: a Session that is no LMTPSession has taken bob and carol,
\* Data has returned "mailbox full" and both are rejected with it.
C18_Witness ==
    \E c \in Conns :
        /\ ~backend.lmtp
        /\ sess[c].state = "BodySubmitted"
        /\ sess[c].ret = [op |-> "Data", err |-> ErrMailboxFull]
        /\ sess[c].rcpts = <<"bob", "carol">>
        /\ sess[c].outcomes = <<ErrMailboxFull, ErrMailboxFull>>

\* The operations that authenticate.
AuthOps == {"AuthPlain", "AuthOAuthBearer"}

\* C19: the authentication state is changed by the authentication
\* operations alone: Reset, Mail, Rcpt, the body submission and everything
\* inside it leave it as it is, and a session that has authenticated stays
\* authenticated through every transaction and reset, up to and including
\* its Logout.
C19_AuthenticationOrthogonal ==
    [][\A c \in Conns :
         /\ sess'[c].authed # sess[c].authed =>
               /\ sess'[c].ret.op \in AuthOps
               /\ sess'[c].ret.err \in {NilError, OAuthNil}
               /\ sess'[c].authed
         /\ sess'[c].ret.op \notin AuthOps => sess'[c].authed = sess[c].authed
         /\ sess[c].authed => sess'[c].authed
         /\ sess'[c].ret.op \in AuthOps =>
               /\ sess'[c].state = sess[c].state
               /\ sess'[c].rcpts = sess[c].rcpts
               /\ sess'[c].from = sess[c].from]_vars

\* C19, witness: an authenticated session has reset a transaction with
\* recipients, submitted the body of another and is still authenticated.
C19_Witness ==
    \E c \in Conns :
        /\ sess[c].authed
        /\ sess[c].dropped
        /\ sess[c].live = "open"
        /\ sess[c].state = "BodySubmitted"
        /\ sess[c].ret.op \in {"Data", "LMTPData"}

\* C20: the two sentinels carry the same reply code and the same enhanced
\* code and are still two values: a comparison with ErrAuthRequired never
\* succeeds for ErrAuthUnsupported nor the other way round, so the error of
\* an unauthenticated Mail is not taken for "not supported" and the error
\* of an unsupported AuthPlain is not taken for "authenticate first".
C20_SentinelsDistinguishable ==
    /\ smtpErrors[ErrAuthRequired.val].Code = smtpErrors[ErrAuthUnsupported.val].Code
    /\ smtpErrors[ErrAuthRequired.val].EnhancedCode =
          smtpErrors[ErrAuthUnsupported.val].EnhancedCode
    /\ ErrAuthRequired # ErrAuthUnsupported
    /\ \A c \in Conns :
        /\ ~(sess[c].ret.err = ErrAuthRequired /\ sess[c].ret.err = ErrAuthUnsupported)
        /\ (sess[c].ret.op = "Mail" /\ AuthMissing(sess[c])) =>
              sess[c].ret.err # ErrAuthUnsupported
        /\ (sess[c].ret.op = "AuthPlain" /\ ~backend.authPlain) =>
              sess[c].ret.err # ErrAuthRequired

\* C20, witness: on a backend that requires authentication and implements
\* no AuthPlain, an unauthenticated session got an error from AuthPlain that
\* equals ErrAuthUnsupported and differs from ErrAuthRequired, with the same
\* reply code behind both.
C20_Witness ==
    \E c \in Conns :
        /\ backend.authRequired
        /\ ~sess[c].authed
        /\ sess[c].ret.op = "AuthPlain"
        /\ sess[c].ret.err = ErrAuthUnsupported
        /\ sess[c].ret.err # ErrAuthRequired
        /\ smtpErrors[sess[c].ret.err.val].Code = smtpErrors[ErrAuthRequired.val].Code

\* C17: the sessions of two connections are independent: with the command
\* loops interleaved in any order, a step that changes one session leaves
\* every other session exactly as it was (transaction state, recipient
\* list, authentication state and all), and a session NewSession returns
\* starts Idle, unauthenticated and without recipients whatever the other
\* sessions hold.
C17_SessionsIndependent ==
    [][\A c \in Conns :
         /\ sess'[c] # sess[c] =>
               \A d \in Conns \ {c} : sess'[d] = sess[d]
         /\ (sess[c].live = "none" /\ sess'[c].live = "open") =>
               /\ sess'[c].state = "Idle"
               /\ sess'[c].rcpts = <<>>
               /\ ~sess'[c].authed]_vars

\* C17, witness: two sessions are open at once, one with a recipient added
\* and the other with only its sender set.
C17_Witness ==
    /\ sess["c1"].live = "open"
    /\ sess["c2"].live = "open"
    /\ sess["c1"].state = "RecipientAdded"
    /\ sess["c1"].rcpts = <<"bob">>
    /\ sess["c2"].state = "SenderSet"
    /\ sess["c2"].rcpts = <<>>

====
